---- MODULE Spec2Model ----
(***************************************************************************)
(* Luma event aggregation: the fetch-merge-enrich pipeline of              *)
(* fetchEvents.py (asyncio clients, gather, sort, city summary) and the    *)
(* file based report builder of aggregate_events.py.                       *)
(***************************************************************************)
EXTENDS Integers, Sequences, FiniteSets, Bags, TLC

(***************************************************************************)
(* Bounds of the model.                                                    *)
(***************************************************************************)
\* responses with has_more = True that the feeds give in one run, all together
MaxMorePages == 1
\* events served by all feeds together in one run
MaxEvents == 2
\* events of a merged snapshot handed to the summary builders on its own
MaxSnapshot == 3
\* events of the combined file filterEvents.py loads
MaxFiltered == 2

(***************************************************************************)
(* Configuration of main(): slugs, then calendar configs (by name).  The    *)
(* model runs the first of the three slugs and one of the five calendars:  *)
(* the clients of one kind run the same code on different parameters.      *)
(***************************************************************************)
slugs == <<"tech">>

calendar_configs == <<"genai-sf">>

\* tasks of fetch_and_aggregate_events, in creation order
NumSources == Len(slugs) + Len(calendar_configs)

Sources == 1..NumSources

SourceName(s) == IF s <= Len(slugs) THEN slugs[s] ELSE calendar_configs[s - Len(slugs)]

(***************************************************************************)
(* Event records.  A start_at text is [form, t]: "isoZ" is an ISO instant  *)
(* with the Z suffix, "iso" the same without a suffix, "bad" a text no     *)
(* parser accepts, "none" an absent (or empty) field.  Absent strings are  *)
(* "", an absent address is <<>>; full_address holds the text between its  *)
(* commas; coordinate_null is an event whose "coordinate" is JSON null.    *)
(***************************************************************************)
NoStart == [form |-> "none", t |-> 0]

BareEvent ==
    [api_id |-> "", start_at |-> NoStart, ev_start_at |-> NoStart,
     city_state |-> "", cal_city |-> "", cal_region_abbrev |-> "", cal_region |-> "",
     city |-> "", region |-> "", region_abbrev |-> "",
     full_address |-> <<>>, coordinate_null |-> FALSE, latitude |-> FALSE,
     longitude |-> FALSE]

Evt1 == [BareEvent EXCEPT !.api_id = "evt-1", !.start_at = [form |-> "isoZ", t |-> 2],
                          !.city_state = "Austin, Texas", !.city = "Austin"]

Evt2 == [BareEvent EXCEPT !.api_id = "evt-2", !.ev_start_at = [form |-> "isoZ", t |-> 1],
                          !.cal_city = "Oakland", !.cal_region_abbrev = "CA",
                          !.cal_region = "California", !.city = "Berkeley"]

Evt3 == [BareEvent EXCEPT !.api_id = "evt-3", !.start_at = [form |-> "iso", t |-> 1],
                          !.city = "San Jose", !.region_abbrev = "CA"]

Evt4 == [BareEvent EXCEPT !.api_id = "evt-4", !.ev_start_at = [form |-> "bad", t |-> 0],
                          !.latitude = TRUE, !.longitude = TRUE,
                          !.full_address = <<"1 Main St", " Palo Alto", " CA">>]

Evt5 == [BareEvent EXCEPT !.api_id = "evt-5"]

EventPool == {Evt1, Evt2, Evt3, Evt4, Evt5}

\* the page contents a feed can answer with, of at most room entries
PageEntries(room) == UNION {[1..n -> EventPool] : n \in 0..room}

(***************************************************************************)
(* get_start_at: None is [valid |-> FALSE]; a datetime is its instant and  *)
(* whether it carries a timezone.                                          *)
(***************************************************************************)
NoneDt == [valid |-> FALSE, aware |-> FALSE, t |-> 0]

\* datetime.fromisoformat(s.replace("Z", "+00:00")), then the strptime fallback
ParseStart(s) ==
    CASE s.form = "isoZ" -> [valid |-> TRUE, aware |-> TRUE, t |-> s.t]
      [] s.form = "iso" -> [valid |-> TRUE, aware |-> FALSE, t |-> s.t]
      [] OTHER -> NoneDt

get_start_at(item) ==
    LET s == IF item.start_at.form # "none" THEN item.start_at ELSE item.ev_start_at
    IN IF s.form = "none" THEN NoneDt ELSE ParseStart(s)

\* datetime.min.replace(tzinfo=None)
DatetimeMin == [valid |-> TRUE, aware |-> FALSE, t |-> 0]

sort_key(item) ==
    LET dt == get_start_at(item)
    IN IF dt.valid THEN dt ELSE DatetimeMin

\* Python's tuple comparison a < b, on tuples of integers of one length
TupleLess(a, b) ==
    \E i \in 1..Len(a) : a[i] < b[i] /\ \A j \in 1..(i - 1) : a[j] = b[j]

\* (mutant) an insertion that puts a pair before the pairs of equal key
RECURSIVE InsertSorted_before(_, _)
InsertSorted_before(sorted, kx) ==
    IF sorted = <<>> THEN <<kx>>
    ELSE IF ~TupleLess(Head(sorted)[1], kx[1]) THEN <<kx>> \o sorted
         ELSE <<Head(sorted)>> \o InsertSorted_before(Tail(sorted), kx)

\* the stable insertion of a pair <<key, item>> into a list sorted by key
RECURSIVE InsertSorted(_, _)
InsertSorted(sorted, kx) ==
    IF sorted = <<>> THEN <<kx>>
    ELSE IF TupleLess(kx[1], Head(sorted)[1]) THEN <<kx>> \o sorted
         ELSE <<Head(sorted)>> \o InsertSorted(Tail(sorted), kx)

\* list.sort / sorted on <<key, item>> pairs: stable, ascending by key
RECURSIVE StableSort(_)
StableSort(pairs) ==
    IF pairs = <<>> THEN <<>>
    ELSE LET n == Len(pairs)
         IN InsertSorted(StableSort(SubSeq(pairs, 1, n - 1)), pairs[n])

Items(pairs) == [i \in 1..Len(pairs) |-> pairs[i][2]]

\* ordering a naive against an aware datetime raises TypeError, and a sort
\* of keys holding both kinds has to order such a pair
SortRaises(events) ==
    \E i, j \in 1..Len(events) : sort_key(events[i]).aware # sort_key(events[j]).aware

\* (mutant) a merge that keeps one copy of an event listed by several feeds
RECURSIVE Dedup(_)
Dedup(events) ==
    IF events = <<>> THEN <<>>
    ELSE LET n == Len(events)
             front == Dedup(SubSeq(events, 1, n - 1))
         IN IF \E i \in 1..Len(front) : front[i] = events[n] THEN front
            ELSE Append(front, events[n])

SortedByStart_dedup(events) ==
    Items(StableSort([i \in 1..Len(Dedup(events)) |->
                        <<(<<sort_key(Dedup(events)[i]).t>>), Dedup(events)[i]>>]))

\* sorted(all_events, key=sort_key) when no comparison raises
SortedByStart(events) ==
    Items(StableSort([i \in 1..Len(events) |-> <<(<<sort_key(events[i]).t>>), events[i]>>]))

RECURSIVE Concat(_)
Concat(lists) ==
    IF lists = <<>> THEN <<>> ELSE Head(lists) \o Concat(Tail(lists))

(***************************************************************************)
(* City resolution.                                                        *)
(***************************************************************************)
\* what gmaps_client.reverse_geocode can do for one coordinate pair
GeocodeOutcomes == {"exception", "empty", "no_locality", "locality", "locality_state"}

\* the locality / administrative_area_level_1 long names of the first result
GeocodeLocality == "Palo Alto"

GeocodeState == "California"

\* (mutant) the event's own city before the combined field
ExplicitCity_city_first(item) ==
    IF item.city # "" THEN item.city
    ELSE IF item.city_state # "" THEN item.city_state
    ELSE IF item.cal_city # "" THEN item.cal_city
    ELSE ""

\* tiers of extract_city shared by both scripts: city_state, calendar city
\* (+ region, abbreviation first), event city (+ region, full name first)
ExplicitCity(item) ==
    LET cal_region == IF item.cal_region_abbrev # "" THEN item.cal_region_abbrev
                      ELSE item.cal_region
        state == IF item.region # "" THEN item.region ELSE item.region_abbrev
    IN IF item.city_state # "" THEN item.city_state
       ELSE IF item.cal_city # "" /\ cal_region # "" THEN item.cal_city \o ", " \o cal_region
       ELSE IF item.cal_city # "" THEN item.cal_city
       ELSE IF item.city # "" /\ state # "" THEN item.city \o ", " \o state
       ELSE IF item.city # "" THEN item.city
       ELSE ""

\* lat is not None and lng is not None
HasCoord(item) == item.latitude /\ item.longitude

\* (mutant) a tier that is content with one of the two coordinates
NeedsGeocode_either(item) == ExplicitCity(item) = "" /\ (item.latitude \/ item.longitude)

\* fetchEvents.extract_city, given a client, issues reverse_geocode for this item
NeedsGeocode(item) == ExplicitCity(item) = "" /\ HasCoord(item)

\* fetchEvents.extract_city, given a client, raises AttributeError for this
\* item: ev.get("coordinate", {}) is None and None has no get
CoordinateRaises(item) == ExplicitCity(item) = "" /\ item.coordinate_null

\* fetchEvents.extract_city(item, gmaps_client), geo the geocoder's outcome
extract_city(item, geo) ==
    IF ExplicitCity(item) # "" THEN ExplicitCity(item)
    ELSE IF HasCoord(item) /\ geo = "locality_state"
         THEN GeocodeLocality \o ", " \o GeocodeState
    ELSE IF HasCoord(item) /\ geo = "locality" THEN GeocodeLocality
    ELSE "Unknown"

\* str.strip() on the address segments the model uses
Strip(seg) ==
    CASE seg = " Palo Alto" -> "Palo Alto"
      [] seg = " CA" -> "CA"
      [] OTHER -> seg

\* aggregate_events.extract_city(item): no geocoder, a full_address tier
agg_extract_city(item) ==
    IF ExplicitCity(item) # "" THEN ExplicitCity(item)
    ELSE IF Len(item.full_address) >= 2
         THEN Strip(item.full_address[1]) \o ", " \o Strip(item.full_address[2])
    ELSE "Unknown"

(***************************************************************************)
(* Distance matrix lookups.  None stands for Python's None in a numeric    *)
(* field; a text field that is None is "None".  Miles are in hundredths,   *)
(* minutes in tenths.                                                      *)
(***************************************************************************)
None == -1

\* what gmaps_client.distance_matrix can do for one destination
LookupOutcomes == {"ok", "not_found", "zero_results", "top_not_ok", "exception"}

\* the element of an OK answer
OkElement ==
    [distance |-> [text |-> "10.0 mi", value |-> 16093],
     duration |-> [text |-> "26 mins", value |-> 1530]]

\* round(a / b) for positive integers
RoundDiv(a, b) == (2 * a + b) \div (2 * b)

\* round(distance_value / 1609.344, 2), in hundredths of a mile
\* (100 / 1609.344 = 3125 / 50292)
Miles(meters) == RoundDiv(meters * 3125, 50292)

\* round(duration_value / 60, 1), in tenths of a minute
Minutes(seconds) == RoundDiv(seconds * 10, 60)

NoValues ==
    [returned |-> TRUE, status |-> "", error |-> "",
     distance_text |-> "None", distance_meters |-> None, distance_miles |-> None,
     duration_text |-> "None", duration_seconds |-> None, duration_minutes |-> None]

OkValues ==
    [NoValues EXCEPT !.status = "OK",
        !.distance_text = OkElement.distance.text,
        !.distance_meters = OkElement.distance.value,
        !.distance_miles = Miles(OkElement.distance.value),
        !.duration_text = OkElement.duration.text,
        !.duration_seconds = OkElement.duration.value,
        !.duration_minutes = Minutes(OkElement.duration.value)]

\* get_distance_and_time_from_user_location; returned = FALSE is "return None"
get_distance_and_time_from_user_location(answer) ==
    CASE answer = "ok" -> OkValues
      [] answer = "not_found" -> [NoValues EXCEPT !.status = "NOT_FOUND"]
      [] answer = "zero_results" -> [NoValues EXCEPT !.status = "ZERO_RESULTS"]
      [] answer = "exception" -> [NoValues EXCEPT !.status = "ERROR", !.error = "exception"]
      [] OTHER -> [NoValues EXCEPT !.returned = FALSE]

\* the city_info of generate_city_summary for one city with a lookup
CityInfo(city, count, distance_data) ==
    IF distance_data.returned /\ distance_data.status = "OK"
    THEN [city |-> city, event_count |-> count, status |-> "OK", error |-> "",
          distance_text |-> distance_data.distance_text,
          distance_meters |-> distance_data.distance_meters,
          distance_miles |-> distance_data.distance_miles,
          duration_text |-> distance_data.duration_text,
          duration_seconds |-> distance_data.duration_seconds,
          duration_minutes |-> distance_data.duration_minutes]
    ELSE [city |-> city, event_count |-> count,
          status |-> IF distance_data.returned THEN distance_data.status ELSE "ERROR",
          error |-> IF distance_data.returned THEN distance_data.error ELSE "",
          distance_text |-> "Unable to calculate", distance_meters |-> None,
          distance_miles |-> None, duration_text |-> "Unable to calculate",
          duration_seconds |-> None, duration_minutes |-> None]

\* the city_info of generate_city_summary for "Unknown"
UnknownInfo(count) ==
    [city |-> "Unknown", event_count |-> count, status |-> "INVALID_LOCATION", error |-> "",
     distance_text |-> "N/A - Unknown location", distance_meters |-> None,
     distance_miles |-> None, duration_text |-> "N/A - Unknown location",
     duration_seconds |-> None, duration_minutes |-> None]

\* (mutant) a counter that records the presence of a city, not its count
CounterAdd_overwrite(counter, city) ==
    IF \E i \in 1..Len(counter) : counter[i][1] = city
    THEN counter
    ELSE Append(counter, <<city, 1>>)

\* Counter[city] += 1 on a counter kept as <<city, count>> pairs in first-seen order
CounterAdd(counter, city) ==
    IF \E i \in 1..Len(counter) : counter[i][1] = city
    THEN [i \in 1..Len(counter) |->
            IF counter[i][1] = city THEN <<city, counter[i][2] + 1>> ELSE counter[i]]
    ELSE Append(counter, <<city, 1>>)

(***************************************************************************)
(* filterEvents.py.  Instants are hours since 2025-01-01T00:00Z, dates are *)
(* days since 2025-01-01 (a Wednesday); a start_at text is [form, t] as    *)
(* above.  The filters read the "event" object of an entry: its start_at   *)
(* (ev_start_at) and the city and city_state of its geo_address_info.      *)
(***************************************************************************)
\* hours that America/Los_Angeles is behind UTC (standard time)
PacificOffset == 8

\* dt_utc.astimezone(tz).date() for a zone utc_offset hours behind UTC
LocalDate(t, utc_offset) == (t - utc_offset) \div 24

\* date.isoformat()
IsoFormat(d) ==
    CASE d = -1 -> "2024-12-31"
      [] d = 0 -> "2025-01-01"
      [] d = 1 -> "2025-01-02"
      [] d = 2 -> "2025-01-03"
      [] OTHER -> "2025-01-04"

\* dt_local.strftime("%A")
WeekdayName(d) ==
    CASE d % 7 = 0 -> "Wednesday"
      [] d % 7 = 1 -> "Thursday"
      [] d % 7 = 2 -> "Friday"
      [] d % 7 = 3 -> "Saturday"
      [] d % 7 = 4 -> "Sunday"
      [] d % 7 = 5 -> "Monday"
      [] OTHER -> "Tuesday"

\* str.lower() on the texts the model uses
Lower(str) ==
    CASE str \in {"Oakland", "OAKLAND"} -> "oakland"
      [] str = "Mountain View" -> "mountain view"
      [] str = "Unknown city" -> "unknown city"
      [] OTHER -> str

\* str.capitalize() on the texts the model uses
Capitalize(str) ==
    CASE str \in {"thursday", "THURSDAY"} -> "Thursday"
      [] str \in {"wednesday", "WEDNESDAY"} -> "Wednesday"
      [] OTHER -> str

\* city_state.split(',')[0].strip() on the texts the model uses
BeforeComma(str) ==
    CASE str = "Mountain View, California" -> "Mountain View"
      [] str = "Austin, Texas" -> "Austin"
      [] OTHER -> str

\* ',' in city_state
HasComma(str) == str \in {"Mountain View, California", "Austin, Texas"}

\* get_city_from_event(event)
get_city_from_event(event) ==
    IF event.city # "" THEN event.city
    ELSE IF event.city_state # "" /\ HasComma(event.city_state)
         THEN BeforeComma(event.city_state)
    ELSE "Unknown city"

\* get_local_date_and_weekday raises ValueError on a text fromisoformat rejects
LocalRaises(start_at) == start_at.form = "bad"

\* get_local_date_and_weekday(start_at, pacific_tz)
get_local_date_and_weekday(start_at) ==
    [date |-> LocalDate(start_at.t, PacificOffset),
     weekday |-> WeekdayName(LocalDate(start_at.t, PacificOffset))]

\* the elements of a list, as set(...) takes them
SetOf(list) == {list[i] : i \in 1..Len(list)}

\* (mutant) a comparison of the texts as they are
filter_by_location_exact(events, location) ==
    IF location = "" THEN events
    ELSE SelectSeq(events, LAMBDA e : get_city_from_event(e) = location)

\* filter_by_location(events, location)
filter_by_location(events, location) ==
    IF location = "" THEN events
    ELSE SelectSeq(events, LAMBDA e : Lower(get_city_from_event(e)) = Lower(location))

\* the events filter_by_dates / filter_by_weekdays convert: those with a start_at
Started(events) == SelectSeq(events, LAMBDA e : e.ev_start_at.form # "none")

\* filter_by_dates(events, dates, pacific_tz), where it returns
filter_by_dates(events, dates) ==
    IF dates = <<>> THEN events
    ELSE SelectSeq(Started(events),
                   LAMBDA e : IsoFormat(get_local_date_and_weekday(e.ev_start_at).date)
                                \in SetOf(dates))

\* filter_by_weekdays(events, weekdays, pacific_tz), where it returns
filter_by_weekdays(events, weekdays) ==
    IF weekdays = <<>> THEN events
    ELSE SelectSeq(Started(events),
                   LAMBDA e : get_local_date_and_weekday(e.ev_start_at).weekday
                                \in {Capitalize(weekdays[i]) : i \in 1..Len(weekdays)})

\* (mutant) loops without "if not start_at: continue": None has no replace
FilterRaises_unguarded(events, predicate) ==
    predicate # <<>> /\ \E i \in 1..Len(events) : events[i].ev_start_at.form # "isoZ"

\* filter_by_dates or filter_by_weekdays raises on these events
FilterRaises(events, predicate) ==
    predicate # <<>> /\ \E i \in 1..Len(events) : LocalRaises(events[i].ev_start_at)

\* no option given on the command line
NoArgs == [location |-> "", dates |-> <<>>, weekdays |-> <<>>, today |-> FALSE]

(***************************************************************************)
(* State.                                                                  *)
(***************************************************************************)
VARIABLES
    script,          \* which program runs: "fetchEvents" or "aggregate_events"
    pc,              \* position of main()
    outcome,         \* how the run ended ("running" until then)
    api_key,         \* GOOGLE_MAPS_API_KEY: "missing", "invalid" or "valid"
    user_location,   \* detected reference location, "" when None
    cpc,             \* per client: "idle", "loop", "awaiting", "sleeping", "finished"
    all_events,      \* per client: its accumulator
    has_more,        \* per client
    current_cursor,  \* per client, 0 when None (and once the client has returned)
    requests,        \* per client: page requests issued
    responses,       \* per client: page responses received
    received,        \* per client: the entries of those responses, in order
    failed,          \* per client: a page request raised
    finish_order,    \* clients in the order they returned
    results,         \* what asyncio.gather returned: <<source name, events>> per task
    merged_events,   \* all_events of fetch_and_aggregate_events / events of aggregate main
    sorted_events,
    combined_file,   \* combined_events.json
    city_counter,    \* <<city, count>> in first-seen order
    resolved,        \* what extract_city returned, per event resolved so far
    geocodes,        \* the reverse_geocode calls issued so far: event index and outcome
    idx,             \* loop index of the running for-loop
    summary,         \* city summary entries, in insertion order
    google_results,  \* aggregate_events: results of query_google_for_cities
    lookups,         \* the distance_matrix calls issued so far: destination and answer
    summary_file,    \* city_summary.json
    resolver_item,   \* extract_city on its own: the item it is called with
    gmaps_client,    \* extract_city on its own: a geocoder is supplied
    args,            \* filterEvents.py: location, dates, weekdays, today
    clock,           \* filterEvents.py: the instant of the run, the machine's UTC offset
    filtered_events  \* filterEvents.py: events, as each filter leaves them

clientVars ==
    <<cpc, all_events, has_more, current_cursor, requests, responses, received, failed,
      finish_order>>

\* what no step of the two programs changes
envVars == <<script, api_key, resolver_item, gmaps_client, args, clock, filtered_events>>

mergeVars == <<results, merged_events, sorted_events, combined_file>>

summaryVars ==
    <<city_counter, resolved, geocodes, idx, summary, google_results, lookups, summary_file>>

vars == <<script, pc, outcome, api_key, user_location, clientVars, mergeVars, summaryVars>>

NotWritten == [written |-> FALSE, content |-> <<>>]

Written(content) == [written |-> TRUE, content |-> content]

Init ==
    /\ script \in {"fetchEvents", "aggregate_events"}
    /\ pc = "main"
    /\ outcome = "running"
    /\ api_key \in {"missing", "invalid", "valid"}
    /\ user_location = ""
    /\ cpc = [s \in Sources |-> "idle"]
    /\ all_events = [s \in Sources |-> <<>>]
    /\ has_more = [s \in Sources |-> TRUE]
    /\ current_cursor = [s \in Sources |-> 0]
    /\ requests = [s \in Sources |-> 0]
    /\ responses = [s \in Sources |-> 0]
    /\ received = [s \in Sources |-> <<>>]
    /\ failed = [s \in Sources |-> FALSE]
    /\ finish_order = <<>>
    /\ results = <<>>
    /\ merged_events = <<>>
    /\ sorted_events = <<>>
    /\ combined_file = NotWritten
    /\ city_counter = <<>>
    /\ resolved = <<>>
    /\ geocodes = <<>>
    /\ idx = 0
    /\ summary = <<>>
    /\ google_results = <<>>
    /\ lookups = <<>>
    /\ summary_file = NotWritten
    /\ resolver_item = BareEvent
    /\ gmaps_client = FALSE
    /\ args = NoArgs
    /\ clock = [now |-> 0, utc_offset |-> 0]
    /\ filtered_events = <<>>

\* main() returns: normally, or from one of its error branches
Finish(how) ==
    /\ pc' = "done"
    /\ outcome' = how

(***************************************************************************)
(* fetchEvents.py: main() up to the start of the clients.                  *)
(***************************************************************************)
\* (mutant) main() without its GOOGLE_MAPS_API_KEY check
CheckApiKey_skipped ==
    /\ script = "fetchEvents" /\ pc = "main"
    /\ pc' = "detect"
    /\ UNCHANGED <<envVars, outcome, user_location, clientVars, mergeVars, summaryVars>>

\* main(): the GOOGLE_MAPS_API_KEY check
CheckApiKey ==
    /\ script = "fetchEvents" /\ pc = "main"
    /\ IF api_key = "missing" THEN Finish("no_api_key")
       ELSE pc' = "detect" /\ UNCHANGED outcome
    /\ UNCHANGED <<envVars, user_location, clientVars, mergeVars, summaryVars>>

\* main(): detect_user_location() and the check of its result
DetectUserLocation ==
    /\ script = "fetchEvents" /\ pc = "detect"
    /\ \/ user_location' = "San Francisco, California, US" /\ pc' = "fetch" /\ UNCHANGED outcome
       \/ user_location' = "" /\ Finish("no_location")
    /\ UNCHANGED <<envVars, clientVars, mergeVars, summaryVars>>

\* fetch_and_aggregate_events: the user_location check, then one task per
\* slug and per calendar config, handed to asyncio.gather
StartFetch ==
    /\ script = "fetchEvents" /\ pc = "fetch"
    /\ IF user_location = ""
       THEN Finish("value_error_location") /\ UNCHANGED cpc
       ELSE pc' = "gather" /\ cpc' = [s \in Sources |-> "loop"] /\ UNCHANGED outcome
    /\ UNCHANGED <<envVars, user_location, all_events, has_more, current_cursor, requests,
                   responses, received, failed, finish_order, mergeVars, summaryVars>>

(***************************************************************************)
(* The paginated clients (fetch_all_luma_events_bounding_box for slugs,    *)
(* fetch_all_luma_events_calendar_api for calendars: the same loop).       *)
(***************************************************************************)
TotalFetched == Len(Concat([s \in Sources |-> all_events[s]]))

\* responses so far that announced a further page
RECURSIVE SumOver(_, _)
SumOver(f, S) ==
    IF S = {} THEN 0
    ELSE LET x == CHOOSE x \in S : TRUE IN f[x] + SumOver(f, S \ {x})

MorePagesGiven == SumOver([s \in Sources |-> IF requests[s] = 0 THEN 0 ELSE requests[s] - 1],
                          Sources)

\* the opaque cursor a feed hands out with the k-th response of source s
Token(s, k) == s * (MaxMorePages + 2) + k

\* (mutant) a client whose delay is time.sleep: it holds the event loop, and no
\* client issues a request while any client is in its delay
ClientRequest_blocking(s) ==
    /\ pc = "gather" /\ cpc[s] = "loop" /\ has_more[s]
    /\ \A t \in Sources : cpc[t] # "sleeping"
    /\ requests' = [requests EXCEPT ![s] = @ + 1]
    /\ cpc' = [cpc EXCEPT ![s] = "awaiting"]
    /\ UNCHANGED <<envVars, pc, outcome, user_location, all_events, has_more, current_cursor,
                   responses, received, failed, finish_order, mergeVars, summaryVars>>

\* while has_more: session.get(base_url, params), pagination_cursor only if truthy
ClientRequest(s) ==
    /\ pc = "gather" /\ cpc[s] = "loop" /\ has_more[s]
    /\ requests' = [requests EXCEPT ![s] = @ + 1]
    /\ cpc' = [cpc EXCEPT ![s] = "awaiting"]
    /\ UNCHANGED <<envVars, pc, outcome, user_location, all_events, has_more, current_cursor,
                   responses, received, failed, finish_order, mergeVars, summaryVars>>

\* (mutant) clients that extend one list shared by all of them
ClientResponse_shared(s) ==
    /\ pc = "gather" /\ cpc[s] = "awaiting"
    /\ \E entries \in PageEntries(MaxEvents - TotalFetched),
          hm \in {h \in BOOLEAN : h => MorePagesGiven < MaxMorePages},
          next_cursor \in {0, Token(s, requests[s])} :
        /\ all_events' = [t \in Sources |-> all_events[t] \o entries]
        /\ received' = [received EXCEPT ![s] = @ \o entries]
        /\ responses' = [responses EXCEPT ![s] = @ + 1]
        /\ has_more' = [has_more EXCEPT ![s] = hm]
        /\ current_cursor' = [current_cursor EXCEPT ![s] = IF hm THEN next_cursor ELSE 0]
        /\ cpc' = [cpc EXCEPT ![s] = IF hm THEN "sleeping" ELSE "finished"]
        /\ finish_order' = IF hm THEN finish_order ELSE Append(finish_order, s)
    /\ UNCHANGED <<envVars, pc, outcome, user_location, requests, failed, mergeVars,
                   summaryVars>>

\* a response arrives: extend, update has_more / cursor, sleep if has_more,
\* else leave the loop and return (the cursor, a local, is gone with the frame)
ClientResponse(s) ==
    /\ pc = "gather" /\ cpc[s] = "awaiting"
    /\ \E entries \in PageEntries(MaxEvents - TotalFetched),
          hm \in {h \in BOOLEAN : h => MorePagesGiven < MaxMorePages},
          next_cursor \in {0, Token(s, requests[s])} :
        /\ all_events' = [all_events EXCEPT ![s] = @ \o entries]
        /\ received' = [received EXCEPT ![s] = @ \o entries]
        /\ responses' = [responses EXCEPT ![s] = @ + 1]
        /\ has_more' = [has_more EXCEPT ![s] = hm]
        /\ current_cursor' = [current_cursor EXCEPT ![s] = IF hm THEN next_cursor ELSE 0]
        /\ cpc' = [cpc EXCEPT ![s] = IF hm THEN "sleeping" ELSE "finished"]
        /\ finish_order' = IF hm THEN finish_order ELSE Append(finish_order, s)
    /\ UNCHANGED <<envVars, pc, outcome, user_location, requests, failed, mergeVars,
                   summaryVars>>

\* (mutant) a failed page request that throws the accumulated entries away
ClientFail_discard(s) ==
    /\ pc = "gather" /\ cpc[s] = "awaiting"
    /\ failed' = [failed EXCEPT ![s] = TRUE]
    /\ all_events' = [all_events EXCEPT ![s] = <<>>]
    /\ cpc' = [cpc EXCEPT ![s] = "finished"]
    /\ current_cursor' = [current_cursor EXCEPT ![s] = 0]
    /\ finish_order' = Append(finish_order, s)
    /\ UNCHANGED <<envVars, pc, outcome, user_location, has_more, requests, responses,
                   received, mergeVars, summaryVars>>

\* the request raises (aiohttp.ClientError, json.JSONDecodeError or any
\* other Exception, e.g. a response that is no object): break, then return
ClientFail(s) ==
    /\ pc = "gather" /\ cpc[s] = "awaiting"
    /\ failed' = [failed EXCEPT ![s] = TRUE]
    /\ cpc' = [cpc EXCEPT ![s] = "finished"]
    /\ current_cursor' = [current_cursor EXCEPT ![s] = 0]
    /\ finish_order' = Append(finish_order, s)
    /\ UNCHANGED <<envVars, pc, outcome, user_location, all_events, has_more, requests,
                   responses, received, mergeVars, summaryVars>>

\* asyncio.sleep(0.2) is over
ClientWake(s) ==
    /\ pc = "gather" /\ cpc[s] = "sleeping"
    /\ cpc' = [cpc EXCEPT ![s] = "loop"]
    /\ UNCHANGED <<envVars, pc, outcome, user_location, all_events, has_more, current_cursor,
                   requests, responses, received, failed, finish_order, mergeVars,
                   summaryVars>>

(***************************************************************************)
(* fetch_and_aggregate_events after the tasks are created.                 *)
(***************************************************************************)
\* (mutant) a wait that returns with the first finished task
GatherFirstCompleted == \E s \in Sources : cpc[s] = "finished"

\* asyncio.gather(*tasks) resumes its caller when every task has returned
GatherComplete == \A s \in Sources : cpc[s] = "finished"

\* (mutant) return values in the order of completion
GatherResults_as_completed ==
    [i \in 1..Len(finish_order) |->
        <<SourceName(finish_order[i]), all_events[finish_order[i]]>>]

\* ... with the tasks' return values in the order of the tasks
GatherResults == [i \in 1..NumSources |-> <<SourceName(i), all_events[i]>>]

\* results = await asyncio.gather(*tasks)
Gather ==
    /\ pc = "gather" /\ GatherComplete
    /\ results' = GatherResults
    /\ pc' = "combine"
    /\ UNCHANGED <<envVars, outcome, user_location, clientVars, merged_events, sorted_events,
                   combined_file, summaryVars>>

\* for source_name, events in results: all_events.extend(events)
CombineResults ==
    /\ pc = "combine"
    /\ merged_events' = Concat([i \in 1..Len(results) |-> results[i][2]])
    /\ pc' = "sort"
    /\ UNCHANGED <<envVars, outcome, user_location, clientVars, results, sorted_events,
                   combined_file, summaryVars>>

\* sorted_events = sorted(all_events, key=sort_key); a TypeError ends the run
\* in main()'s "except Exception"
SortEvents ==
    /\ pc = "sort"
    /\ IF SortRaises(merged_events)
       THEN Finish("unexpected_error") /\ UNCHANGED sorted_events
       ELSE sorted_events' = SortedByStart(merged_events) /\ pc' = "save_combined"
            /\ UNCHANGED outcome
    /\ UNCHANGED <<envVars, user_location, clientVars, results, merged_events,
                   combined_file, summaryVars>>

\* json.dump(sorted_events) to combined_events.json
WriteCombined ==
    /\ pc = "save_combined"
    /\ combined_file' = Written(sorted_events)
    /\ pc' = "summary"
    /\ UNCHANGED <<envVars, outcome, user_location, clientVars, results, merged_events,
                   sorted_events, summaryVars>>

(***************************************************************************)
(* generate_city_summary.                                                  *)
(***************************************************************************)
\* the checks of user_location and GOOGLE_MAPS_API_KEY, then googlemaps.Client,
\* which raises on a key it does not accept
SummaryConfig ==
    /\ pc = "summary"
    /\ IF user_location = "" THEN Finish("value_error_location") /\ UNCHANGED idx
       ELSE IF api_key = "missing" THEN Finish("value_error_key") /\ UNCHANGED idx
       ELSE IF api_key = "invalid" THEN Finish("value_error_client") /\ UNCHANGED idx
       ELSE pc' = "count" /\ idx' = 1 /\ UNCHANGED outcome
    /\ UNCHANGED <<envVars, user_location, clientVars, mergeVars, city_counter, summary,
                   google_results, lookups, summary_file, resolved, geocodes>>

\* for event in events: city_counter[extract_city(event, gmaps_client)] += 1
CountCity ==
    /\ pc = "count" /\ idx <= Len(sorted_events)
    /\ IF CoordinateRaises(sorted_events[idx])
       THEN /\ Finish("unexpected_error")
            /\ UNCHANGED <<city_counter, resolved, geocodes, idx>>
       ELSE /\ \E geo \in (IF NeedsGeocode(sorted_events[idx]) THEN GeocodeOutcomes
                            ELSE {"unused"}) :
                 /\ city_counter' = CounterAdd(city_counter,
                                               extract_city(sorted_events[idx], geo))
                 /\ resolved' = Append(resolved, extract_city(sorted_events[idx], geo))
                 /\ geocodes' = IF geo = "unused" THEN geocodes
                                ELSE Append(geocodes, [event |-> idx, outcome |-> geo])
            /\ idx' = idx + 1
            /\ UNCHANGED <<pc, outcome>>
    /\ UNCHANGED <<envVars, user_location, clientVars, mergeVars, summary,
                   google_results, lookups, summary_file>>

\* (mutant) one city per event instead of one per distinct key
RECURSIVE Cities_per_event(_)
Cities_per_event(counter) ==
    IF counter = <<>> THEN <<>>
    ELSE [i \in 1..Head(counter)[2] |-> Head(counter)[1]] \o Cities_per_event(Tail(counter))

\* cities = list(city_counter.keys())
Cities(counter) == [i \in 1..Len(counter) |-> counter[i][1]]

CountOf(counter, city) ==
    LET i == CHOOSE i \in 1..Len(counter) : counter[i][1] = city
    IN counter[i][2]

\* summary = {}; the lookup loop starts
ListCities ==
    /\ pc = "count" /\ idx > Len(sorted_events)
    /\ summary' = <<>>
    /\ idx' = 1
    /\ pc' = "query"
    /\ UNCHANGED <<envVars, outcome, user_location, clientVars, mergeVars, city_counter,
                   google_results, lookups, summary_file, resolved, geocodes>>

\* d[key] = value on a dict kept as a list of entries with a city field
DictSet(d, entry) ==
    IF \E i \in 1..Len(d) : d[i].city = entry.city
    THEN [i \in 1..Len(d) |-> IF d[i].city = entry.city THEN entry ELSE d[i]]
    ELSE Append(d, entry)

\* (mutant) a lookup whose exception leaves the loop and the run
QueryCity_abort ==
    /\ pc = "query" /\ idx <= Len(Cities(city_counter))
    /\ LET city == Cities(city_counter)[idx]
           count == CountOf(city_counter, city)
       IN IF city # "Unknown"
          THEN \E o \in LookupOutcomes :
                 /\ lookups' = Append(lookups, [city |-> city, answer |-> o])
                 /\ IF o = "exception"
                    THEN Finish("unexpected_error") /\ UNCHANGED <<summary, idx>>
                    ELSE /\ summary' = DictSet(summary,
                               CityInfo(city, count, get_distance_and_time_from_user_location(o)))
                         /\ idx' = idx + 1
                         /\ UNCHANGED <<pc, outcome>>
          ELSE /\ summary' = DictSet(summary, UnknownInfo(count))
               /\ idx' = idx + 1
               /\ UNCHANGED <<lookups, pc, outcome>>
    /\ UNCHANGED <<envVars, user_location, clientVars, mergeVars, city_counter,
                   google_results, summary_file, resolved, geocodes>>

\* (mutant) a loop that looks "Unknown" up like any other city
QueryCity_unknown ==
    /\ pc = "query" /\ idx <= Len(Cities(city_counter))
    /\ LET city == Cities(city_counter)[idx]
           count == CountOf(city_counter, city)
       IN \E o \in LookupOutcomes :
            /\ lookups' = Append(lookups, [city |-> city, answer |-> o])
            /\ summary' = DictSet(summary,
                   CityInfo(city, count, get_distance_and_time_from_user_location(o)))
    /\ idx' = idx + 1
    /\ UNCHANGED <<envVars, pc, outcome, user_location, clientVars, mergeVars, city_counter,
                   google_results, summary_file, resolved, geocodes>>

\* one iteration of "for i, city in enumerate(cities, 1)"
QueryCity ==
    /\ pc = "query" /\ idx <= Len(Cities(city_counter))
    /\ LET city == Cities(city_counter)[idx]
           count == CountOf(city_counter, city)
       IN IF city # "Unknown"
          THEN \E o \in LookupOutcomes :
                 /\ lookups' = Append(lookups, [city |-> city, answer |-> o])
                 /\ summary' = DictSet(summary,
                        CityInfo(city, count, get_distance_and_time_from_user_location(o)))
          ELSE /\ summary' = DictSet(summary, UnknownInfo(count))
               /\ UNCHANGED lookups
    /\ idx' = idx + 1
    /\ UNCHANGED <<envVars, pc, outcome, user_location, clientVars, mergeVars, city_counter,
                   google_results, summary_file, resolved, geocodes>>

\* json.dump(city_summary) to city_summary.json; main() reports success
WriteSummary ==
    /\ pc = "query" /\ idx > Len(Cities(city_counter))
    /\ summary_file' = Written(summary)
    /\ Finish("success")
    /\ UNCHANGED <<envVars, user_location, clientVars, mergeVars, city_counter, idx, summary,
                   google_results, lookups, resolved, geocodes>>

(***************************************************************************)
(* aggregate_events.py.                                                    *)
(***************************************************************************)
\* the event lists load_events can read from fetchedEvents/*.json
LoadableEvents == PageEntries(MaxEvents)

\* key=lambda x: (x[0] is None, x[0]) orders two parsed datetimes of unlike
\* kinds (naive, aware) only by comparing them, which raises TypeError
AggSortRaises(events) ==
    \E i, j \in 1..Len(events) :
        /\ get_start_at(events[i]).valid /\ get_start_at(events[j]).valid
        /\ get_start_at(events[i]).aware # get_start_at(events[j]).aware

\* (mutant) a key that stands datetime.min in for a missing start
AggSortKey_min(item) ==
    LET dt == get_start_at(item)
    IN <<0, dt.t>>

\* key=lambda x: (x[0] is None, x[0])
AggSortKey(item) ==
    LET dt == get_start_at(item)
    IN <<(IF dt.valid THEN 0 ELSE 1), dt.t>>

\* combine_and_sort(events) when no comparison raises
combine_and_sort(events) ==
    Items(StableSort([i \in 1..Len(events) |-> <<AggSortKey(events[i]), events[i]>>]))

\* Counter(cities) over a list of events
RECURSIVE CountCities(_)
CountCities(events) ==
    IF events = <<>> THEN <<>>
    ELSE LET n == Len(events)
         IN CounterAdd(CountCities(SubSeq(events, 1, n - 1)), agg_extract_city(events[n]))

\* (mutant) the counter's items in insertion order
MostCommon_unsorted(counter) == counter

\* counts.most_common(): by count, largest first, stable
MostCommon(counter) ==
    Items(StableSort([i \in 1..Len(counter) |-> <<(<<0 - counter[i][2]>>), counter[i]>>]))

\* the summary entries main() builds before any lookup
CountOnlyEntry(city, cnt) ==
    [city |-> city, count |-> cnt, distance_miles |-> None, travel_time_minutes |-> None,
     has_google |-> FALSE, google |-> NoValues]

\* events = load_events(EVENTS_DIR)
AggLoadEvents ==
    /\ script = "aggregate_events" /\ pc = "main"
    /\ merged_events' \in LoadableEvents
    /\ pc' = "agg_sort"
    /\ UNCHANGED <<envVars, outcome, user_location, clientVars, results, sorted_events,
                   combined_file, summaryVars>>

\* sorted_events = combine_and_sort(events); a TypeError is not caught
AggCombineAndSort ==
    /\ pc = "agg_sort"
    /\ IF AggSortRaises(merged_events)
       THEN Finish("type_error") /\ UNCHANGED sorted_events
       ELSE sorted_events' = combine_and_sort(merged_events) /\ pc' = "agg_save_combined"
            /\ UNCHANGED outcome
    /\ UNCHANGED <<envVars, user_location, clientVars, results, merged_events,
                   combined_file, summaryVars>>

\* json.dump(sorted_events) to combined_events.json
AggWriteCombined ==
    /\ pc = "agg_save_combined"
    /\ combined_file' = Written(sorted_events)
    /\ pc' = "agg_count"
    /\ UNCHANGED <<envVars, outcome, user_location, clientVars, results, merged_events,
                   sorted_events, summaryVars>>

\* cities, counts = Counter(cities), summary from counts.most_common()
AggCount ==
    /\ pc = "agg_count"
    /\ city_counter' = CountCities(sorted_events)
    /\ summary' = [i \in 1..Len(city_counter') |->
                     CountOnlyEntry(MostCommon(city_counter')[i][1],
                                    MostCommon(city_counter')[i][2])]
    /\ resolved' = [i \in 1..Len(sorted_events) |-> agg_extract_city(sorted_events[i])]
    /\ pc' = "agg_key"
    /\ UNCHANGED <<envVars, outcome, user_location, clientVars, mergeVars, idx,
                   google_results, lookups, summary_file, geocodes>>

\* city_names = [s["city"] for s in summary if s["city"] != "Unknown"]
CityNames(entries) ==
    SelectSeq([i \in 1..Len(entries) |-> entries[i].city], LAMBDA c : c # "Unknown")

\* (mutant) a main() that requires the credential, as generate_city_summary does
AggCheckKey_required ==
    /\ pc = "agg_key"
    /\ IF api_key = "missing"
       THEN Finish("value_error_key") /\ UNCHANGED <<user_location, idx>>
       ELSE /\ user_location' = "37.7749,-122.4194"
            /\ pc' = "agg_query" /\ idx' = 1 /\ UNCHANGED outcome
    /\ UNCHANGED <<envVars, clientVars, mergeVars, city_counter, summary, google_results,
                   lookups, summary_file, resolved, geocodes>>

\* the api_key test, get_user_location(), then googlemaps.Client(key=api_key)
\* at the head of query_google_for_cities, which raises on a key it rejects
AggCheckKey ==
    /\ pc = "agg_key"
    /\ IF api_key = "missing"
       THEN pc' = "agg_attach" /\ UNCHANGED <<outcome, user_location, idx>>
       ELSE \/ user_location' = "" /\ pc' = "agg_attach" /\ UNCHANGED <<outcome, idx>>
            \/ /\ user_location' = "37.7749,-122.4194"
               /\ IF api_key = "invalid"
                  THEN Finish("value_error_client") /\ UNCHANGED idx
                  ELSE pc' = "agg_query" /\ idx' = 1 /\ UNCHANGED outcome
    /\ UNCHANGED <<envVars, clientVars, mergeVars, city_counter, summary, google_results,
                   lookups, summary_file, resolved, geocodes>>

\* (mutant) a loop without the reset of its non-OK branch: a city that is not
\* found is recorded with the distance and duration left over from an OK answer
AggResult_stale(city, answer) ==
    CASE answer = "ok" -> [OkValues EXCEPT !.returned = TRUE] @@ [city |-> city]
      [] answer = "not_found" -> [OkValues EXCEPT !.status = "NOT_FOUND"] @@ [city |-> city]
      [] answer = "zero_results" ->
            [NoValues EXCEPT !.status = "ZERO_RESULTS"] @@ [city |-> city]
      [] OTHER -> [NoValues EXCEPT !.status = "ERROR", !.error = "exception"]
                    @@ [city |-> city]

\* what query_google_for_cities stores for one city
AggResult(city, answer) ==
    CASE answer = "ok" -> [OkValues EXCEPT !.returned = TRUE] @@ [city |-> city]
      [] answer = "not_found" -> [NoValues EXCEPT !.status = "NOT_FOUND"] @@ [city |-> city]
      [] answer = "zero_results" ->
            [NoValues EXCEPT !.status = "ZERO_RESULTS"] @@ [city |-> city]
      [] OTHER -> [NoValues EXCEPT !.status = "ERROR", !.error = "exception"]
                    @@ [city |-> city]

\* one iteration of the loop of query_google_for_cities
AggQueryCity ==
    /\ pc = "agg_query" /\ idx <= Len(CityNames(summary))
    /\ \E o \in LookupOutcomes :
         /\ lookups' = Append(lookups, [city |-> CityNames(summary)[idx], answer |-> o])
         /\ google_results' = DictSet(google_results, AggResult(CityNames(summary)[idx], o))
    /\ idx' = idx + 1
    /\ UNCHANGED <<envVars, pc, outcome, user_location, clientVars, mergeVars, city_counter,
                   summary, summary_file, resolved, geocodes>>

\* query_google_for_cities returns
AggQueryDone ==
    /\ pc = "agg_query" /\ idx > Len(CityNames(summary))
    /\ pc' = "agg_attach"
    /\ UNCHANGED <<envVars, outcome, user_location, clientVars, mergeVars, summaryVars>>

\* for item in summary: attach its google result, fill the top-level fields
Attach(item) ==
    IF \E i \in 1..Len(google_results) : google_results[i].city = item.city
    THEN LET res == google_results[CHOOSE i \in 1..Len(google_results) :
                                        google_results[i].city = item.city]
         IN [item EXCEPT !.has_google = TRUE,
                         !.google = [f \in DOMAIN NoValues |-> res[f]],
                         !.distance_miles = res.distance_miles,
                         !.travel_time_minutes = res.duration_minutes]
    ELSE item

\* the attach loop, then json.dump of the summary to city_summary.json
AggWriteSummary ==
    /\ pc = "agg_attach"
    /\ summary' = [i \in 1..Len(summary) |-> Attach(summary[i])]
    /\ summary_file' = Written(summary')
    /\ Finish("success")
    /\ UNCHANGED <<envVars, user_location, clientVars, mergeVars, city_counter, idx,
                   google_results, lookups, resolved, geocodes>>

(***************************************************************************)
(* The two programs.                                                       *)
(***************************************************************************)
Next ==
    \/ CheckApiKey
    \/ DetectUserLocation
    \/ StartFetch
    \/ \E s \in Sources : ClientRequest(s)
    \/ \E s \in Sources : ClientResponse(s)
    \/ \E s \in Sources : ClientFail(s)
    \/ \E s \in Sources : ClientWake(s)
    \/ Gather
    \/ CombineResults
    \/ SortEvents
    \/ WriteCombined
    \/ SummaryConfig
    \/ CountCity
    \/ ListCities
    \/ QueryCity
    \/ WriteSummary
    \/ AggLoadEvents
    \/ AggCombineAndSort
    \/ AggWriteCombined
    \/ AggCount
    \/ AggCheckKey
    \/ AggQueryCity
    \/ AggQueryDone
    \/ AggWriteSummary

Spec == Init /\ [][Next]_vars

(***************************************************************************)
(* The summary builders on their own: generate_city_summary and the second *)
(* half of aggregate_events.main, started on a merged snapshot of up to    *)
(* MaxSnapshot events that one feed served in one page (fetchEvents) or    *)
(* that load_events read (aggregate_events).                               *)
(***************************************************************************)
SnapshotInputs == PageEntries(MaxSnapshot)

SummaryInit ==
    /\ script \in {"fetchEvents", "aggregate_events"}
    /\ outcome = "running"
    /\ merged_events \in SnapshotInputs
    /\ IF script = "fetchEvents"
       THEN /\ ~SortRaises(merged_events)
            /\ pc = "summary"
            /\ api_key \in {"invalid", "valid"}
            /\ user_location = "37.7749,-122.4194"
            /\ cpc = [s \in Sources |-> "finished"]
            /\ all_events = [s \in Sources |-> IF s = 1 THEN merged_events ELSE <<>>]
            /\ has_more = [s \in Sources |-> FALSE]
            /\ requests = [s \in Sources |-> 1]
            /\ responses = [s \in Sources |-> 1]
            /\ finish_order = [i \in 1..NumSources |-> i]
            /\ results = [s \in Sources |-> <<SourceName(s), all_events[s]>>]
            /\ sorted_events = SortedByStart(merged_events)
       ELSE /\ ~AggSortRaises(merged_events)
            /\ pc = "agg_count"
            /\ api_key \in {"missing", "invalid", "valid"}
            /\ user_location = ""
            /\ cpc = [s \in Sources |-> "idle"]
            /\ all_events = [s \in Sources |-> <<>>]
            /\ has_more = [s \in Sources |-> TRUE]
            /\ requests = [s \in Sources |-> 0]
            /\ responses = [s \in Sources |-> 0]
            /\ finish_order = <<>>
            /\ results = <<>>
            /\ sorted_events = combine_and_sort(merged_events)
    /\ current_cursor = [s \in Sources |-> 0]
    /\ received = all_events
    /\ failed = [s \in Sources |-> FALSE]
    /\ combined_file = Written(sorted_events)
    /\ city_counter = <<>>
    /\ resolved = <<>>
    /\ geocodes = <<>>
    /\ idx = 0
    /\ summary = <<>>
    /\ google_results = <<>>
    /\ lookups = <<>>
    /\ summary_file = NotWritten
    /\ resolver_item = BareEvent
    /\ gmaps_client = FALSE
    /\ args = NoArgs
    /\ clock = [now |-> 0, utc_offset |-> 0]
    /\ filtered_events = <<>>

SummaryNext ==
    \/ SummaryConfig
    \/ CountCity
    \/ ListCities
    \/ QueryCity
    \/ WriteSummary
    \/ AggCount
    \/ AggCheckKey
    \/ AggQueryCity
    \/ AggQueryDone
    \/ AggWriteSummary

SummarySpec == SummaryInit /\ [][SummaryNext]_vars

(***************************************************************************)
(* extract_city on its own: one call of fetchEvents.extract_city (with or  *)
(* without a geocoder) or of aggregate_events.extract_city on an item      *)
(* whose fields are each absent or present.                                *)
(***************************************************************************)
ItemInputs ==
    {it \in [api_id : {""}, start_at : {NoStart}, ev_start_at : {NoStart},
             city_state : {"", "Austin, Texas"},
             cal_city : {"", "Oakland"},
             cal_region_abbrev : {"", "CA"},
             cal_region : {"", "California"},
             city : {"", "San Jose"},
             region : {"", "California"},
             region_abbrev : {"", "CA"},
             full_address : {<<>>, <<"1 Main St">>, <<"1 Main St", " Palo Alto", " CA">>},
             coordinate_null : BOOLEAN, latitude : BOOLEAN, longitude : BOOLEAN] :
        it.coordinate_null => (~it.latitude /\ ~it.longitude)}

ResolverInit ==
    /\ script \in {"fetchEvents", "aggregate_events"}
    /\ pc = "extract_city"
    /\ outcome = "running"
    /\ api_key = "valid"
    /\ user_location = ""
    /\ resolver_item \in ItemInputs
    /\ gmaps_client \in (IF script = "fetchEvents" THEN BOOLEAN ELSE {FALSE})
    /\ args = NoArgs
    /\ clock = [now |-> 0, utc_offset |-> 0]
    /\ filtered_events = <<>>
    /\ cpc = [s \in Sources |-> "idle"]
    /\ all_events = [s \in Sources |-> <<>>]
    /\ has_more = [s \in Sources |-> TRUE]
    /\ current_cursor = [s \in Sources |-> 0]
    /\ requests = [s \in Sources |-> 0]
    /\ responses = [s \in Sources |-> 0]
    /\ received = [s \in Sources |-> <<>>]
    /\ failed = [s \in Sources |-> FALSE]
    /\ finish_order = <<>>
    /\ results = <<>>
    /\ merged_events = <<>>
    /\ sorted_events = <<>>
    /\ combined_file = NotWritten
    /\ city_counter = <<>>
    /\ resolved = <<>>
    /\ geocodes = <<>>
    /\ idx = 0
    /\ summary = <<>>
    /\ google_results = <<>>
    /\ lookups = <<>>
    /\ summary_file = NotWritten

\* fetchEvents.extract_city(item, gmaps_client)
ResolveCity ==
    /\ script = "fetchEvents" /\ pc = "extract_city"
    /\ IF gmaps_client /\ CoordinateRaises(resolver_item)
       THEN Finish("attribute_error") /\ UNCHANGED <<resolved, geocodes>>
       ELSE /\ \E geo \in (IF gmaps_client /\ NeedsGeocode(resolver_item) THEN GeocodeOutcomes
                            ELSE {"unused"}) :
                 /\ resolved' = <<extract_city(resolver_item, geo)>>
                 /\ geocodes' = IF geo = "unused" THEN <<>>
                                ELSE <<[event |-> 1, outcome |-> geo]>>
            /\ Finish("success")
    /\ UNCHANGED <<envVars, user_location, clientVars, mergeVars, city_counter, idx, summary,
                   google_results, lookups, summary_file>>

\* aggregate_events.extract_city(item)
AggResolveCity ==
    /\ script = "aggregate_events" /\ pc = "extract_city"
    /\ resolved' = <<agg_extract_city(resolver_item)>>
    /\ Finish("success")
    /\ UNCHANGED <<envVars, user_location, clientVars, mergeVars, city_counter, geocodes, idx,
                   summary, google_results, lookups, summary_file>>

ResolverNext == ResolveCity \/ AggResolveCity

ResolverSpec == ResolverInit /\ [][ResolverNext]_vars

(***************************************************************************)
(* filterEvents.py run on a combined file of up to MaxFiltered entries.    *)
(***************************************************************************)
Flt1 == [BareEvent EXCEPT !.api_id = "flt-1", !.ev_start_at = [form |-> "isoZ", t |-> 28],
                          !.city = "Oakland"]

Flt2 == [BareEvent EXCEPT !.api_id = "flt-2", !.ev_start_at = [form |-> "isoZ", t |-> 44],
                          !.city_state = "Mountain View, California"]

Flt3 == [BareEvent EXCEPT !.api_id = "flt-3", !.city = "Oakland"]

Flt4 == [BareEvent EXCEPT !.api_id = "flt-4", !.ev_start_at = [form |-> "bad", t |-> 0]]

FilterPool == {Flt1, Flt2, Flt3, Flt4}

\* what parse_args can return
ArgInputs ==
    [location : {"", "OAKLAND", "Mountain View"},
     dates : {<<>>, <<"2025-01-01">>, <<"2025-01-02">>, <<"2025-01-01", "2025-01-03">>},
     weekdays : {<<>>, <<"wednesday">>, <<"Thursday", "Saturday">>},
     today : BOOLEAN]

\* when the script runs, and on a machine how many hours behind UTC
ClockInputs == [now : {26, 44}, utc_offset : {0, PacificOffset}]

FilterInit ==
    /\ script = "filterEvents"
    /\ pc = "main"
    /\ outcome = "running"
    /\ api_key = "valid"
    /\ user_location = ""
    /\ resolver_item = BareEvent
    /\ gmaps_client = FALSE
    /\ args \in ArgInputs
    /\ clock \in ClockInputs
    /\ filtered_events = <<>>
    /\ cpc = [s \in Sources |-> "idle"]
    /\ all_events = [s \in Sources |-> <<>>]
    /\ has_more = [s \in Sources |-> TRUE]
    /\ current_cursor = [s \in Sources |-> 0]
    /\ requests = [s \in Sources |-> 0]
    /\ responses = [s \in Sources |-> 0]
    /\ received = [s \in Sources |-> <<>>]
    /\ failed = [s \in Sources |-> FALSE]
    /\ finish_order = <<>>
    /\ results = <<>>
    /\ merged_events = <<>>
    /\ sorted_events = <<>>
    /\ combined_file \in {Written(c) : c \in UNION {[1..n -> FilterPool] : n \in 0..MaxFiltered}}
    /\ city_counter = <<>>
    /\ resolved = <<>>
    /\ geocodes = <<>>
    /\ idx = 0
    /\ summary = <<>>
    /\ google_results = <<>>
    /\ lookups = <<>>
    /\ summary_file = NotWritten

pipelineVars == <<api_key, user_location, clientVars, mergeVars, summaryVars>>

\* events = load_events(args.file); the --today flag adds date.today()
FilterToday ==
    /\ script = "filterEvents" /\ pc = "main"
    /\ filtered_events' = combined_file.content
    /\ args' = IF args.today
               THEN [args EXCEPT !.dates =
                        Append(@, IsoFormat(LocalDate(clock.now, clock.utc_offset)))]
               ELSE args
    /\ pc' = "location"
    /\ UNCHANGED <<script, outcome, resolver_item, gmaps_client, clock, pipelineVars>>

\* apply_filters: events = filter_by_location(events, location)
FilterByLocation ==
    /\ script = "filterEvents" /\ pc = "location"
    /\ filtered_events' = filter_by_location(filtered_events, args.location)
    /\ pc' = "dates"
    /\ UNCHANGED <<script, outcome, resolver_item, gmaps_client, args, clock, pipelineVars>>

\* apply_filters: events = filter_by_dates(events, dates, pacific_tz)
FilterByDates ==
    /\ script = "filterEvents" /\ pc = "dates"
    /\ IF FilterRaises(filtered_events, args.dates)
       THEN Finish("value_error") /\ UNCHANGED filtered_events
       ELSE /\ filtered_events' = filter_by_dates(filtered_events, args.dates)
            /\ pc' = "weekdays" /\ UNCHANGED outcome
    /\ UNCHANGED <<script, resolver_item, gmaps_client, args, clock, pipelineVars>>

\* apply_filters: events = filter_by_weekdays(events, weekdays, pacific_tz); return
FilterByWeekdays ==
    /\ script = "filterEvents" /\ pc = "weekdays"
    /\ IF FilterRaises(filtered_events, args.weekdays)
       THEN Finish("value_error") /\ UNCHANGED filtered_events
       ELSE /\ filtered_events' = filter_by_weekdays(filtered_events, args.weekdays)
            /\ Finish("success")
    /\ UNCHANGED <<script, resolver_item, gmaps_client, args, clock, pipelineVars>>

FilterNext == FilterToday \/ FilterByLocation \/ FilterByDates \/ FilterByWeekdays

FilterSpec == FilterInit /\ [][FilterNext]_vars

(***************************************************************************)
(* Properties.                                                             *)
(***************************************************************************)
Fetching == script = "fetchEvents"

\* the events of a list, with multiplicity
BagOfSeq(seq) ==
    [e \in {seq[i] : i \in 1..Len(seq)} |-> Cardinality({i \in 1..Len(seq) : seq[i] = e})]

IsPermutation(a, b) == Len(a) = Len(b) /\ BagOfSeq(a) = BagOfSeq(b)

\* C1: a client whose page request failed has returned, issued no request
\* after the failed one (every earlier request was answered), and holds and
\* returns exactly the entries of the responses it received, in order.
C1_PartialResultsKept ==
    \A s \in Sources :
        failed[s] =>
            /\ cpc[s] = "finished"
            /\ requests[s] = responses[s] + 1
            /\ all_events[s] = received[s]
            /\ results # <<>> => results[s] = <<SourceName(s), received[s]>>

C1_Witness ==
    \E s \in Sources :
        /\ failed[s] /\ responses[s] >= 1 /\ received[s] # <<>>
        /\ results # <<>>

\* C2: in the fetch pipeline every step that collects the results, merges,
\* writes a snapshot or enriches is taken with all clients finished.
C2_GatherWaitsForAll ==
    [][(/\ Fetching
        /\ \/ results' # results
           \/ merged_events' # merged_events
           \/ sorted_events' # sorted_events
           \/ combined_file' # combined_file
           \/ city_counter' # city_counter
           \/ lookups' # lookups
           \/ summary' # summary
           \/ summary_file' # summary_file)
       => \A s \in Sources : cpc[s] = "finished"]_vars

C2_Witness ==
    /\ results # <<>>
    /\ \E s, t \in Sources : requests[s] = 1 /\ requests[t] >= 2 /\ finish_order[1] = s

\* C3: gather's result has one entry per source, in input order (slugs, then
\* calendars), each the name and the events of that source, whatever the
\* completion order was.
C3_ResultsInInputOrder ==
    results # <<>> =>
        /\ Len(results) = NumSources
        /\ \A i \in 1..NumSources : results[i] = <<SourceName(i), all_events[i]>>

C3_Witness ==
    /\ results # <<>>
    /\ finish_order[1] # 1
    /\ all_events[1] # all_events[2]

\* the merge (sort) of the running script has returned
MergeDone ==
    \/ pc \in {"save_combined", "summary", "count", "query"}
    \/ pc \in {"agg_save_combined", "agg_count", "agg_key", "agg_query", "agg_attach"}
    \/ combined_file.written

\* C4: once the merge has returned, its output is a permutation of the
\* concatenation of the per-source lists (of the loaded events for
\* aggregate_events): same length, nothing dropped, nothing duplicated; the
\* snapshot written is that output.
C4_MergeIsPermutation ==
    MergeDone =>
        /\ Fetching => IsPermutation(sorted_events, Concat([s \in Sources |-> all_events[s]]))
        /\ ~Fetching => IsPermutation(sorted_events, merged_events)
        /\ combined_file.written => combined_file.content = sorted_events

C4_Witness ==
    /\ Fetching /\ combined_file.written
    /\ \E s, t \in Sources :
        /\ s # t /\ failed[s] /\ responses[s] >= 1
        /\ all_events[s] # <<>> /\ all_events[t] = all_events[s]
    /\ Len(combined_file.content) = 2

HasStart(item) == get_start_at(item).valid

\* timestamps non-decreasing, and no event without one before an event with one
StartOrdered(events) ==
    \A i, j \in 1..Len(events) :
        i < j =>
            /\ (HasStart(events[i]) /\ HasStart(events[j]))
                 => get_start_at(events[i]).t <= get_start_at(events[j]).t
            /\ HasStart(events[j]) => HasStart(events[i])

\* C5: the merged snapshot of the fetch pipeline has its timestamped events
\* in non-decreasing order and every event without a valid start timestamp
\* after all of them.
C5_SnapshotOrdered ==
    (Fetching /\ combined_file.written) => StartOrdered(combined_file.content)

\* every fetched event carries a Z-suffixed start timestamp, an unparseable
\* one or none
ZOrNoStart(events) ==
    \A i \in 1..Len(events) :
        /\ events[i].start_at.form \in {"isoZ", "bad", "none"}
        /\ events[i].ev_start_at.form \in {"isoZ", "bad", "none"}

\* C6: a finished fetch run that was configured (key accepted, location
\* detected) and fetched at least one event has written both snapshots; taken
\* here over feeds whose timestamps are all Z-suffixed or missing.
C6_BothSnapshotsWritten ==
    (/\ Fetching /\ pc = "done"
     /\ api_key = "valid" /\ user_location # ""
     /\ TotalFetched >= 1
     /\ ZOrNoStart(Concat([s \in Sources |-> all_events[s]])))
    => (combined_file.written /\ summary_file.written)

\* the failures of a run for want of the credential or the reference location
ConfigErrors == {"no_api_key", "no_location", "value_error_location", "value_error_key"}

\* C10: a fetch run that ended for want of the Google Maps credential or of
\* the reference location has issued no page request to any source.
C10_ConfigErrorBeforeFetch ==
    (Fetching /\ outcome \in ConfigErrors) => \A s \in Sources : requests[s] = 0

C10_Witness ==
    Fetching /\ pc = "done" /\ outcome \in ConfigErrors

(***************************************************************************)
(* Enrichment properties, over both scripts.                               *)
(***************************************************************************)
\* where the running script records the answer of a lookup
LookupRecords == IF Fetching THEN summary ELSE google_results

\* the status a lookup's answer is to be recorded as
ExpectedStatus(answer) ==
    CASE answer = "ok" -> "OK"
      [] answer = "not_found" -> "NOT_FOUND"
      [] answer = "zero_results" -> "ZERO_RESULTS"
      [] OTHER -> "ERROR"

\* the distance lookups of the running script have been attempted
EnrichmentRan == Fetching \/ (api_key = "valid" /\ user_location # "")

LookedUp(city) == \E i \in 1..Len(lookups) : lookups[i].city = city

\* the status a summary entry carries, "" when it carries none
EntryStatus(e) ==
    IF Fetching THEN e.status ELSE IF e.has_google THEN e.google.status ELSE ""

\* C7: every lookup made so far, failed or not, is recorded under its city
\* with the status of its answer; a failed lookup does not end the run; and
\* when the summary is written after the lookups ran, every distinct city
\* key has an entry in it and every key but "Unknown" was looked up, its
\* entry carrying the status of that lookup.
C7_LookupFailureIsolated ==
    /\ \A i \in 1..Len(lookups) :
          \E k \in 1..Len(LookupRecords) :
              /\ LookupRecords[k].city = lookups[i].city
              /\ LookupRecords[k].status = ExpectedStatus(lookups[i].answer)
    /\ (\E i \in 1..Len(lookups) : lookups[i].answer # "ok") => outcome \in {"running", "success"}
    /\ (summary_file.written /\ EnrichmentRan) =>
          \A c \in 1..Len(city_counter) :
              \E k \in 1..Len(summary_file.content) :
                  /\ summary_file.content[k].city = city_counter[c][1]
                  /\ city_counter[c][1] # "Unknown" =>
                        \E i \in 1..Len(lookups) :
                            /\ lookups[i].city = city_counter[c][1]
                            /\ EntryStatus(summary_file.content[k])
                                  = ExpectedStatus(lookups[i].answer)

C7_Witness ==
    /\ summary_file.written
    /\ \E i, j \in 1..Len(lookups) :
          i < j /\ lookups[i].answer = "exception" /\ lookups[j].answer = "ok"

\* C8: no city key is the destination of more than one distance lookup.
C8_OneLookupPerCityKey ==
    \A i, j \in 1..Len(lookups) : lookups[i].city = lookups[j].city => i = j

C8_Witness ==
    /\ summary_file.written
    /\ \E i \in 1..Len(lookups) : CountOf(city_counter, lookups[i].city) >= 2

DistinctKeys == {resolved[i] : i \in 1..Len(resolved)}

\* the events of the snapshot that resolved to a key
EventsOf(key) == {i \in 1..Len(resolved) : resolved[i] = key}

\* the event count a summary entry carries
EntryCount(e) == IF Fetching THEN e.event_count ELSE e.count

C14_OneEntryPerCityKey ==
    summary_file.written =>
        /\ Len(resolved) = Len(sorted_events)
        /\ \A key \in DistinctKeys :
              Cardinality({k \in 1..Len(summary_file.content) :
                              summary_file.content[k].city = key}) = 1
        /\ \A k \in 1..Len(summary_file.content) :
              /\ summary_file.content[k].city \in DistinctKeys
              /\ EntryCount(summary_file.content[k])
                   = Cardinality(EventsOf(summary_file.content[k].city))

C14_Witness ==
    /\ summary_file.written /\ Len(summary_file.content) >= 2
    /\ \E k \in 1..Len(summary_file.content) :
          /\ summary_file.content[k].city = "Austin, Texas"
          /\ EntryCount(summary_file.content[k]) = 2

\* where a city key was first seen in the snapshot
FirstSeen(key) == CHOOSE i \in EventsOf(key) : \A j \in EventsOf(key) : i <= j

\* entry a may stand before entry b: more events, or as many and seen first
CountThenFirstSeen(a, b) ==
    \/ EntryCount(a) > EntryCount(b)
    \/ EntryCount(a) = EntryCount(b) /\ FirstSeen(a.city) < FirstSeen(b.city)

\* C15 as claimed: the written summary is ordered by event count, largest
\* first, entries of equal count in first-seen order of their keys.
C15_SummaryByCountDescending ==
    summary_file.written =>
        \A k, l \in 1..Len(summary_file.content) :
            k < l => CountThenFirstSeen(summary_file.content[k], summary_file.content[l])

\* C15 as amended: the summary of aggregate_events is ordered by event count,
\* largest first, ties in first-seen order; the summary mapping of the fetch
\* pipeline lists its keys in first-seen order whatever their counts.
C15_SummaryOrder ==
    summary_file.written =>
        \A k, l \in 1..Len(summary_file.content) :
            k < l =>
                IF Fetching
                THEN FirstSeen(summary_file.content[k].city)
                       < FirstSeen(summary_file.content[l].city)
                ELSE CountThenFirstSeen(summary_file.content[k], summary_file.content[l])

C15_Witness ==
    /\ ~Fetching /\ summary_file.written
    /\ \E k, l \in 1..Len(summary_file.content) :
          /\ k < l
          /\ EntryCount(summary_file.content[k]) > EntryCount(summary_file.content[l])
          /\ FirstSeen(summary_file.content[k].city) > FirstSeen(summary_file.content[l].city)

(***************************************************************************)
(* The city resolver.                                                      *)
(***************************************************************************)
\* "a or b" of two strings
Either(a, b) == IF a # "" THEN a ELSE b

\* C12: the key extract_city returned is the combined city_state field when
\* that is present, whatever else the item holds; else the calendar city,
\* with the calendar region when there is one; else the event's own city,
\* with the event's region when there is one.
C12_TierOrder ==
    LET it == resolver_item
        calr == Either(it.cal_region_abbrev, it.cal_region)
        evr == Either(it.region, it.region_abbrev)
    IN (pc = "done" /\ (it.city_state # "" \/ it.cal_city # "" \/ it.city # "")) =>
          /\ outcome = "success" /\ Len(resolved) = 1 /\ geocodes = <<>>
          /\ resolved[1] =
                IF it.city_state # "" THEN it.city_state
                ELSE IF it.cal_city # ""
                     THEN (IF calr # "" THEN it.cal_city \o ", " \o calr ELSE it.cal_city)
                     ELSE (IF evr # "" THEN it.city \o ", " \o evr ELSE it.city)

C12_Witness ==
    /\ pc = "done"
    /\ resolver_item.city_state # "" /\ resolver_item.cal_city # ""
    /\ resolver_item.city # ""
    /\ resolved = <<resolver_item.city_state>>

\* C13: fetchEvents.extract_city issues a reverse_geocode call exactly when a
\* geocoder was supplied, the item has both latitude and longitude and no
\* explicit tier has a value, and then it issues one; when that call raises,
\* returns nothing or returns no locality, extract_city returns "Unknown".
C13_GeocodeTier ==
    LET it == resolver_item
    IN (Fetching /\ pc = "done" /\ outcome = "success") =>
          /\ Len(geocodes) <= 1
          /\ Len(geocodes) = 1 <=>
                (/\ gmaps_client
                 /\ it.latitude /\ it.longitude
                 /\ it.city_state = "" /\ it.cal_city = "" /\ it.city = "")
          /\ (/\ Len(geocodes) = 1
              /\ geocodes[1].outcome \in {"exception", "empty", "no_locality"})
                => resolved = <<"Unknown">>

C13_Witness ==
    /\ Fetching /\ pc = "done" /\ outcome = "success"
    /\ Len(geocodes) = 1 /\ geocodes[1].outcome = "exception"
    /\ resolved = <<"Unknown">>

(***************************************************************************)
(* The filter.                                                             *)
(***************************************************************************)
Filtered == script = "filterEvents" /\ pc = "done" /\ outcome = "success"

\* the snapshot the filter was given
Snapshot == combined_file.content

\* the local (America/Los_Angeles) date of an event that has a start
LocalDateText(e) == IsoFormat((e.ev_start_at.t - PacificOffset) \div 24)

LocalWeekday(e) == WeekdayName((e.ev_start_at.t - PacificOffset) \div 24)

MatchesLocation(e) ==
    args.location = "" \/ Lower(get_city_from_event(e)) = Lower(args.location)

MatchesDates(e) ==
    args.dates = <<>>
      \/ (e.ev_start_at.form = "isoZ" /\ LocalDateText(e) \in SetOf(args.dates))

MatchesWeekdays(e) ==
    args.weekdays = <<>>
      \/ (/\ e.ev_start_at.form = "isoZ"
          /\ \E i \in 1..Len(args.weekdays) : Capitalize(args.weekdays[i]) = LocalWeekday(e))

\* C16: what apply_filters returns is the snapshot restricted, in snapshot
\* order, to the events that match the location, the dates and the weekdays
\* given; an option not given (or given empty) matches every event.
C16_FilterIsConjunction ==
    Filtered =>
        filtered_events =
            SelectSeq(Snapshot,
                      LAMBDA e : MatchesLocation(e) /\ MatchesDates(e) /\ MatchesWeekdays(e))

C16_Witness ==
    /\ Filtered
    /\ args.location # "" /\ args.dates # <<>> /\ args.weekdays # <<>>
    /\ filtered_events # <<>> /\ Len(filtered_events) < Len(Snapshot)

\* C17: with dates or weekdays given, no returned event lacks a start
\* timestamp; and a run over a snapshot whose every start timestamp is a
\* well-formed one or missing returns (it does not raise).
C17_NoStartNeverMatches ==
    (script = "filterEvents" /\ pc = "done") =>
        /\ (outcome = "success" /\ (args.dates # <<>> \/ args.weekdays # <<>>)) =>
              \A i \in 1..Len(filtered_events) : filtered_events[i].ev_start_at.form # "none"
        /\ (\A i \in 1..Len(Snapshot) : Snapshot[i].ev_start_at.form \in {"isoZ", "none"})
              => outcome = "success"

C17_Witness ==
    /\ Filtered /\ args.today /\ args.location # ""
    /\ filtered_events # <<>>
    /\ \E i \in 1..Len(Snapshot) :
          Snapshot[i].ev_start_at.form = "none" /\ MatchesLocation(Snapshot[i])

\* the dates given with --dates, before --today added its own
ExplicitDates ==
    IF args.today /\ pc # "main" THEN SubSeq(args.dates, 1, Len(args.dates) - 1)
    ELSE args.dates

\* C18: with --today and no other filter, the events returned are those
\* whose local date is one of the dates given or today's date in
\* America/Los_Angeles.
C18_TodayInReferenceTimezone ==
    (Filtered /\ args.today /\ args.location = "" /\ args.weekdays = <<>>) =>
        filtered_events =
            SelectSeq(Snapshot,
                      LAMBDA e : /\ e.ev_start_at.form = "isoZ"
                                 /\ LocalDateText(e) \in
                                      SetOf(ExplicitDates)
                                        \cup {IsoFormat((clock.now - PacificOffset) \div 24)})

(***************************************************************************)
(* Pagination.                                                             *)
(***************************************************************************)
\* client s issues a page request in this step
Requests(s) == requests'[s] = requests[s] + 1

\* C19: a client issues a request after its first only when the response
\* before it announced more data and gave a next cursor: a response with
\* has_more false or without a next cursor ends that source's pagination.
C19_ExhaustedFeedEndsPagination ==
    [][\A s \in Sources :
          (Requests(s) /\ responses[s] >= 1) => (has_more[s] /\ current_cursor[s] # 0)]_vars

\* C20: the first request of a source carries no cursor and every later one
\* carries the cursor given by that source's latest response (cursors are
\* distinct per source and response, so none is used twice or for another
\* source and no page is requested twice).
C20_CursorFromPrecedingResponse ==
    [][\A s \in Sources :
          Requests(s) =>
              current_cursor[s] = IF responses[s] = 0 THEN 0 ELSE Token(s, responses[s])]_vars

(***************************************************************************)
(* The clients side by side: the delay, and what a step may touch.         *)
(***************************************************************************)
\* a client between two awaits of its loop: in its delay or awaiting a response
Suspended(s) == cpc[s] \in {"sleeping", "awaiting"}

\* C21: a client in its inter-page delay has just received a successful
\* response whose has_more flag was true (every request answered, no failure,
\* so never after its last page or after a failed request); and while any
\* client is in its delay or awaiting a response, every other client at the
\* top of its loop can issue its request and every other client awaiting a
\* response can receive it.
C21_DelayOnlyAfterMorePages ==
    /\ \A s \in Sources :
          cpc[s] = "sleeping" =>
              /\ has_more[s] /\ ~failed[s]
              /\ responses[s] >= 1 /\ responses[s] = requests[s]
    /\ \A s, t \in Sources :
          (s # t /\ Suspended(s)) =>
              /\ (cpc[t] = "loop" /\ has_more[t]) => ENABLED ClientRequest(t)
              /\ cpc[t] = "awaiting" => ENABLED ClientResponse(t)

\* one client is in its delay while another, having received a page, is at
\* the top of its loop about to issue its next request
C21_Witness ==
    \E s, t \in Sources :
        /\ s # t /\ cpc[s] = "sleeping"
        /\ cpc[t] = "loop" /\ has_more[t] /\ responses[t] >= 1

IsPrefix(a, b) == Len(a) <= Len(b) /\ SubSeq(b, 1, Len(a)) = a

\* client s takes a step of its own (request, response, delay over, failure, return)
ClientSteps(s) == cpc[s] # "idle" /\ cpc'[s] # cpc[s]

\* C22: a step of one client leaves the accumulator, the cursor and the
\* has_more flag of every other client as they were, and an accumulator
\* changes only in a step of its own client receiving a response, and only
\* by growing at its end.
C22_ClientStateIsPrivate ==
    [][\A s \in Sources :
          /\ ClientSteps(s) =>
                \A t \in Sources \ {s} :
                    /\ all_events'[t] = all_events[t]
                    /\ current_cursor'[t] = current_cursor[t]
                    /\ has_more'[t] = has_more[t]
          /\ all_events'[s] # all_events[s] =>
                /\ ClientSteps(s) /\ cpc[s] = "awaiting"
                /\ IsPrefix(all_events[s], all_events'[s])]_vars

\* both clients have accumulated entries, each its own
C22_Witness ==
    /\ script = "fetchEvents" /\ pc = "gather"
    /\ \A s \in Sources : all_events[s] # <<>>
    /\ \E s, t \in Sources : all_events[s] # all_events[t]

(***************************************************************************)
(* The merge on its own: the combine and the sort of both scripts, from    *)
(* per-source lists (fetchEvents) or a loaded file (aggregate_events) that *)
(* hold events of equal start, of no start, and in any order.              *)
(***************************************************************************)
MaxMerged == 3

\* a second event starting at the instant of Evt2
Evt6 == [BareEvent EXCEPT !.api_id = "evt-6", !.start_at = [form |-> "isoZ", t |-> 1],
                          !.city = "Oakland", !.region_abbrev = "CA"]

MergeInputs == UNION {[1..n -> EventPool \cup {Evt6}] : n \in 0..MaxMerged}

MergeInit ==
    /\ script \in {"fetchEvents", "aggregate_events"}
    /\ outcome = "running"
    /\ IF script = "fetchEvents"
       THEN /\ pc = "combine"
            /\ api_key = "valid"
            /\ user_location = "37.7749,-122.4194"
            /\ cpc = [s \in Sources |-> "finished"]
            /\ \E events \in MergeInputs, k \in 0..MaxMerged :
                  /\ k <= Len(events)
                  /\ all_events = [s \in Sources |->
                                     IF s = 1 THEN SubSeq(events, 1, k)
                                     ELSE IF s = NumSources
                                          THEN SubSeq(events, k + 1, Len(events))
                                          ELSE <<>>]
            /\ has_more = [s \in Sources |-> FALSE]
            /\ requests = [s \in Sources |-> 1]
            /\ responses = [s \in Sources |-> 1]
            /\ finish_order = [i \in 1..NumSources |-> i]
            /\ results = [s \in Sources |-> <<SourceName(s), all_events[s]>>]
            /\ merged_events = <<>>
       ELSE /\ pc = "agg_sort"
            /\ api_key \in {"missing", "valid"}
            /\ user_location = ""
            /\ cpc = [s \in Sources |-> "idle"]
            /\ all_events = [s \in Sources |-> <<>>]
            /\ has_more = [s \in Sources |-> TRUE]
            /\ requests = [s \in Sources |-> 0]
            /\ responses = [s \in Sources |-> 0]
            /\ finish_order = <<>>
            /\ results = <<>>
            /\ merged_events \in MergeInputs
    /\ current_cursor = [s \in Sources |-> 0]
    /\ received = all_events
    /\ failed = [s \in Sources |-> FALSE]
    /\ sorted_events = <<>>
    /\ combined_file = NotWritten
    /\ city_counter = <<>>
    /\ resolved = <<>>
    /\ geocodes = <<>>
    /\ idx = 0
    /\ summary = <<>>
    /\ google_results = <<>>
    /\ lookups = <<>>
    /\ summary_file = NotWritten
    /\ resolver_item = BareEvent
    /\ gmaps_client = FALSE
    /\ args = NoArgs
    /\ clock = [now |-> 0, utc_offset |-> 0]
    /\ filtered_events = <<>>

MergeNext ==
    \/ CombineResults
    \/ SortEvents
    \/ WriteCombined
    \/ AggCombineAndSort
    \/ AggWriteCombined

MergeSpec == MergeInit /\ [][MergeNext]_vars

\* C23: when combine_and_sort of aggregate_events has returned, its output
\* holds every loaded record exactly once each (a permutation of the input),
\* the records with a parseable start are in non-decreasing order of start,
\* and every record without a usable start comes after all of them.
C23_CombineAndSortOrder ==
    (~Fetching /\ MergeDone) =>
        /\ IsPermutation(sorted_events, merged_events)
        /\ StartOrdered(sorted_events)

\* three records were loaded, one without a start ahead of one with a start,
\* and the sort has moved it behind
C23_Witness ==
    /\ ~Fetching /\ combined_file.written /\ Len(merged_events) = 3
    /\ ~HasStart(merged_events[1]) /\ HasStart(merged_events[3])
    /\ ~HasStart(sorted_events[3])
    /\ \E i, j \in 1..3 :
          /\ i < j /\ HasStart(merged_events[i]) /\ HasStart(merged_events[j])
          /\ get_start_at(merged_events[j]).t < get_start_at(merged_events[i]).t

\* the records of a list that start when e does (or, like e, have no start)
StartingLike(events, e) ==
    LET Same(x) == get_start_at(x) = get_start_at(e)
    IN SelectSeq(events, Same)

\* C24: when the merge sort of either script has returned, the events of
\* one start timestamp, and the events without a valid start timestamp,
\* stand in the output in the order they had in the concatenated input.
C24_MergeSortStable ==
    MergeDone =>
        \A i \in 1..Len(merged_events) :
            StartingLike(sorted_events, merged_events[i])
              = StartingLike(merged_events, merged_events[i])

\* the input held two different events of one start timestamp behind a
\* later event, and the sort has moved them
C24_Witness ==
    /\ Fetching /\ combined_file.written
    /\ sorted_events # merged_events
    /\ \E i, j \in 1..Len(merged_events) :
          /\ i < j /\ merged_events[i] # merged_events[j]
          /\ HasStart(merged_events[i])
          /\ get_start_at(merged_events[i]) = get_start_at(merged_events[j])

(***************************************************************************)
(* The resolver's full-address tier, and the values of a summary entry.    *)
(***************************************************************************)
\* C25: when no earlier tier has a value and the item has a full address,
\* the key extract_city returned is the first two comma-separated segments
\* of the address joined with a comma, and the whole address when it has
\* no comma.
C25_FullAddressTier ==
    LET it == resolver_item
    IN (/\ pc = "done" /\ outcome = "success"
        /\ it.city_state = "" /\ it.cal_city = "" /\ it.city = ""
        /\ it.full_address # <<>>) =>
          resolved = <<IF Len(it.full_address) >= 2
                       THEN Strip(it.full_address[1]) \o ", " \o Strip(it.full_address[2])
                       ELSE it.full_address[1]>>

\* the numeric distance and duration values a summary entry carries
NumericValues(e) ==
    IF Fetching
    THEN {e.distance_meters, e.distance_miles, e.duration_seconds, e.duration_minutes}
    ELSE {e.distance_miles, e.travel_time_minutes}
           \cup (IF e.has_google
                 THEN {e.google.distance_meters, e.google.distance_miles,
                       e.google.duration_seconds, e.google.duration_minutes}
                 ELSE {})

\* C26: in every entry of the summary, as it is built and as it is written,
\* and in every recorded enrichment result, the distance (meters, miles) and
\* duration (seconds, minutes) values are all null unless the status is OK:
\* NOT_FOUND, ZERO_RESULTS, ERROR, INVALID_LOCATION and an entry without a
\* lookup carry no number.
C26_ValuesOnlyWhenOK ==
    /\ \A k \in 1..Len(summary) :
          EntryStatus(summary[k]) # "OK" => NumericValues(summary[k]) = {None}
    /\ \A k \in 1..Len(summary_file.content) :
          EntryStatus(summary_file.content[k]) # "OK"
            => NumericValues(summary_file.content[k]) = {None}
    /\ \A k \in 1..Len(google_results) :
          google_results[k].status # "OK" =>
              {google_results[k].distance_meters, google_results[k].distance_miles,
               google_results[k].duration_seconds, google_results[k].duration_minutes}
                = {None}

\* the summary written holds a city that was not found, without numbers,
\* next to a city with status OK and its numbers
C26_Witness ==
    /\ summary_file.written
    /\ \E k, l \in 1..Len(summary_file.content) :
          LET e == summary_file.content[k]
              f == summary_file.content[l]
          IN /\ EntryStatus(e) = "NOT_FOUND" /\ NumericValues(e) = {None}
             /\ EntryStatus(f) = "OK" /\ None \notin NumericValues(f)
====
